---- MODULE Spec2Model ----
(***************************************************************************)
(* Model of cleo.registry.DeviceInteractionRegistry: the registry that     *)
(* owns the shared light-source NeuronGroup, the per-(device, population)  *)
(* light-propagation Synapses and the set of light/device/population       *)
(* connections.                                                            *)
(*                                                                         *)
(* Units: lengths in micrometres, times in microseconds, wavelengths in    *)
(* nanometres, epsilon in hundredths, scale in thousandths.  A slice       *)
(* slice(lo, hi) is the pair <<lo, hi>> of 0-based, half-open bounds;      *)
(* container index i is element i + 1 of the Irr0 sequence.                *)
(***************************************************************************)
EXTENDS Integers, Sequences, FiniteSets, TLC

\* ------------------------------------------------------------------ bounds
\* Largest light-source container the model builds (n_prev + light.n).
MaxN == 3

\* --------------------------------------------------------------- universe
Lights == {"L1", "L2"}
Ldds == {"D1", "D2"}
\* a device that is neither a Light nor a LightDependent
Others == {"X1"}
Devices == Lights \cup Ldds \cup Others
Pops == {"P1"}

\* light.n, light.wavelength (nm), light.scan_freq (Hz), and a token for
\* light.transmittance(coords_from_ng(ng)) (non-zero, distinct per light)
LightN == [L1 |-> 1, L2 |-> 2]
Wavelength == [L1 |-> 473, L2 |-> 590]
ScanFreq == [L1 |-> 1, L2 |-> 20]
Transmittance == [L1 |-> 7, L2 |-> 9]

\* ldd.epsilon(wavelength), in hundredths: D1 is blind at 590 nm
Epsilon(ldd, wavelength) ==
    IF ldd = "D1" THEN (IF wavelength = 473 THEN 100 ELSE 0)
    ELSE (IF wavelength = 473 THEN 30 ELSE 50)

\* keys of ldd.light_agg_ngs: the populations the device has aggregation
\* targets for
LightAggNgs == [D1 |-> {"P1"}, D2 |-> {"P1"}]

\* values written to Irr0 from outside and field-of-view arguments (um)
IrrValues == {5}
FovValues == {100, 200}

\* defaultclock.dt in microseconds
DefaultClockDt == 100
\* default of raster_fov, 500 * 1e-6 * meter, in micrometres
DefaultRasterFov == 500
\* light_prop_syn.Ephoton = 1 * joule, in the unit of EphotonOf
OneJoule == 1000000

\* ---------------------------------------------------------------- helpers
NoNG == [id |-> 0, Irr0 |-> <<>>]
IsNone(ng) == ng.id = 0

Const(n, v) == [i \in 1..n |-> v]

\* indices (1-based) addressed by slice(lo, hi) in a sequence of length n
SliceIdx(sl, n) == {i \in 1..n : sl[1] < i /\ i <= sl[2]}

\* seq[sl] = v
WriteSlice(seq, sl, v) ==
    [i \in 1..Len(seq) |-> IF i \in SliceIdx(sl, Len(seq)) THEN v ELSE seq[i]]

\* seq[:] = v
WriteAll(seq, v) == Const(Len(seq), v)

\* Ephoton = h*c/lambda, 6.63e-34 * 2.998e8 / wavelength, in 1e-22 J
EphotonOf(wavelength) == 1987674 \div wavelength

\* second / light.scan_freq
ScanPeriodOf(freq) == 1000000 \div freq

\* (pi * 10 ** -10 * meter2) / (pi * (raster_fov / 2) ** 2) * second / scan_freq
DwellTimeOf(fov, freq) == (400 * 1000000) \div (fov * fov * freq)

\* 1 + (dt > dwell).astype(int) * (dt / dwell - 1), in thousandths
ScaleOf(dwell) ==
    IF DefaultClockDt > dwell THEN (DefaultClockDt * 1000) \div dwell ELSE 1000

RECURSIVE Perms(_)
\* the orders in which a Python set may be iterated
Perms(S) ==
    IF S = {} THEN {<<>>}
    ELSE UNION {{<<x>> \o p : p \in Perms(S \ {x})} : x \in S}

NgObj(id) == [kind |-> "ng", ldd |-> "-", ng |-> "-", gen |-> id]
SynObj(ldd, ng, gen) == [kind |-> "syn", ldd |-> ldd, ng |-> ng, gen |-> gen]

\* ------------------------------------------------------------------ state
VARIABLES
    subgroup_idx_for_light, \* light -> slice in light_source_ng
    light_source_ng,        \* NoNG or [id, Irr0]
    ldds_for_ng,            \* population -> set of light-dependent devices
    lights_for_ng,          \* population -> set of lights
    light_prop_syns,        \* <<ldd, ng>> -> Synapses
    connections,            \* set of <<light, ldd, ng>>
    raster_fov,
    raster_enable,
    brian_objects,          \* objects this registry added
    network,                \* objects of sim.network
    last,                   \* the last call and its outcome
    clean,                  \* only registrations so far, none of which raised
    opto_syns,              \* population name -> opsin Synapses of the device
    max_Irr0_mW_per_mm2,    \* <<>> for None, <<m>> for the maximum m
    value,                  \* the stimulator's current value
    opto_brian_objects,     \* the device's brian_objects
    opto_last,              \* the device's last call and its outcome
    foutz                   \* the last transmittance evaluation

vars == <<subgroup_idx_for_light, light_source_ng, ldds_for_ng, lights_for_ng,
          light_prop_syns, connections, raster_fov, raster_enable,
          brian_objects, network, last, clean,
          opto_syns, max_Irr0_mW_per_mm2, value, opto_brian_objects, opto_last,
          foutz>>

\* the optogenetic device
optoVars == <<opto_syns, max_Irr0_mW_per_mm2, value, opto_brian_objects,
              opto_last>>

\* the registry (and its simulator's network) as one value
Cur ==
    [subgroup_idx_for_light |-> subgroup_idx_for_light,
     light_source_ng |-> light_source_ng,
     ldds_for_ng |-> ldds_for_ng,
     lights_for_ng |-> lights_for_ng,
     light_prop_syns |-> light_prop_syns,
     connections |-> connections,
     raster_fov |-> raster_fov,
     raster_enable |-> raster_enable,
     brian_objects |-> brian_objects,
     network |-> network,
     err |-> "none",
     warned |-> FALSE]

Ok(st) == st.err = "none"
Raise(st, e) == [st EXCEPT !.err = e]

\* ------------------------------------------------------------- operations
_add_brian_object(st, obj) ==
    [st EXCEPT !.brian_objects = @ \cup {obj}, !.network = @ \cup {obj}]

\* mutation of _remove_brian_object: the object stays in brian_objects
_remove_brian_object_NetworkOnly(st, obj) ==
    IF obj \notin st.brian_objects THEN Raise(st, "KeyError(obj)")
    ELSE [st EXCEPT !.network = @ \ {obj}]

_remove_brian_object(st, obj) ==
    IF obj \notin st.brian_objects THEN Raise(st, "KeyError(obj)")
    ELSE [st EXCEPT !.brian_objects = @ \ {obj}, !.network = @ \ {obj}]

NewSyn(st) ==
    LET n == Len(st.light_source_ng.Irr0) IN
    [gen |-> st.light_source_ng.id,
     epsilon |-> Const(n, 0),
     T |-> Const(n, 0),
     Ephoton |-> Const(n, OneJoule),
     scan_period |-> Const(n, 0),
     raster_dwell_time |-> Const(n, 0),
     scale |-> Const(n, 0),
     raster_enable |-> Const(n, 0)]

_get_or_create_light_prop_syn(st, ldd, ng) ==
    IF <<ldd, ng>> \notin DOMAIN st.light_prop_syns
    THEN IF ng \notin LightAggNgs[ldd] THEN Raise(st, "KeyError(ng.name)")
         ELSE IF IsNone(st.light_source_ng) THEN Raise(st, "AttributeError")
         ELSE LET syn == NewSyn(st)
                  s1 == _add_brian_object(st, SynObj(ldd, ng, syn.gen))
              IN [s1 EXCEPT !.light_prop_syns =
                     [k \in DOMAIN @ \cup {<<ldd, ng>>} |->
                         IF k = <<ldd, ng>> THEN syn ELSE @[k]]]
    ELSE st

\* mutation of NoCoupling: the test misses an exactly-zero sensitivity
NoCoupling_Negative(epsilon) == epsilon < 0

\* if epsilon == 0: return
NoCoupling(epsilon) == epsilon = 0

\* mutation of AlreadyConnected: the duplicate check is missing
AlreadyConnected_Never(st, light, ldd, ng) == FALSE

\* (light, ldd, ng) in self.connections
AlreadyConnected(st, light, ldd, ng) == <<light, ldd, ng>> \in st.connections

connect_light_to_ldd_for_ng(st, light, ldd, ng) ==
    LET epsilon == Epsilon(ldd, Wavelength[light]) IN
    IF NoCoupling(epsilon) THEN st
    ELSE
    LET s1 == _get_or_create_light_prop_syn(st, ldd, ng) IN
    IF ~Ok(s1) THEN s1
    ELSE IF AlreadyConnected(s1, light, ldd, ng) THEN Raise(s1, "ValueError")
    ELSE IF light \notin DOMAIN s1.subgroup_idx_for_light THEN Raise(s1, "KeyError(light)")
    ELSE
    LET i_source == s1.subgroup_idx_for_light[light]
        syn == s1.light_prop_syns[<<ldd, ng>>]
        dwell == DwellTimeOf(s1.raster_fov, ScanFreq[light])
        syn1 == [syn EXCEPT
                   !.epsilon = WriteSlice(@, i_source, epsilon),
                   !.T = WriteSlice(@, i_source, Transmittance[light]),
                   !.scan_period = WriteAll(@, ScanPeriodOf(ScanFreq[light])),
                   !.raster_dwell_time = WriteAll(@, dwell),
                   !.scale = WriteAll(@, ScaleOf(dwell)),
                   !.raster_enable = WriteAll(@, s1.raster_enable),
                   !.Ephoton = WriteSlice(@, i_source, EphotonOf(Wavelength[light]))]
    IN [s1 EXCEPT !.light_prop_syns[<<ldd, ng>>] = syn1,
                  !.connections = @ \cup {<<light, ldd, ng>>}]

RECURSIVE ConnectEach_Swallow(_, _)
\* mutation of ConnectEach: a connection that raises is skipped
ConnectEach_Swallow(st, cxns) ==
    IF cxns = <<>> THEN st
    ELSE LET s1 == connect_light_to_ldd_for_ng(st, Head(cxns)[1], Head(cxns)[2], Head(cxns)[3])
         IN ConnectEach_Swallow(IF Ok(s1) THEN s1 ELSE st, Tail(cxns))

RECURSIVE ConnectEach(_, _)
\* for light, ldd, ng in cxns: self.connect_light_to_ldd_for_ng(light, ldd, ng)
\* (the loop stops at the first call that raises)
ConnectEach(st, cxns) ==
    IF cxns = <<>> \/ ~Ok(st) THEN st
    ELSE ConnectEach(
             connect_light_to_ldd_for_ng(st, Head(cxns)[1], Head(cxns)[2], Head(cxns)[3]),
             Tail(cxns))

\* dict.get(ng, set())
GetOrEmpty(d, ng) == IF ng \in DOMAIN d THEN d[ng] ELSE {}

\* if ng not in d: d[ng] = set(); d[ng].add(x)
AddMember(d, ng, x) ==
    [k \in DOMAIN d \cup {ng} |-> IF k = ng THEN GetOrEmpty(d, ng) \cup {x} ELSE d[k]]

\* mutation of RemoveSyns: the old synapses stay in the network
RemoveSyns_None(st, keys) == st

RECURSIVE RemoveSyns(_, _)
\* for light_prop_syn in self.light_prop_syns.values(): self._remove_brian_object(...)
RemoveSyns(st, keys) ==
    IF keys = {} \/ ~Ok(st) THEN st
    ELSE LET k == CHOOSE x \in keys : TRUE
         IN RemoveSyns(
                _remove_brian_object(st, SynObj(k[1], k[2], st.light_prop_syns[k].gen)),
                keys \ {k})

\* mutation of NewLightSourceNg: Irr0_prev is not copied into the new group
NewLightSourceNg_NoCopy(st, light) ==
    [id |-> st.light_source_ng.id + 1,
     Irr0 |-> Const(Len(st.light_source_ng.Irr0) + LightN[light], 0)]

\* the new NeuronGroup(n_prev + light.n) with Irr0 of the old one copied to [:n_prev]
NewLightSourceNg(st, light) ==
    LET Irr0_prev == st.light_source_ng.Irr0
        n_prev == Len(Irr0_prev)
    IN [id |-> st.light_source_ng.id + 1,
        Irr0 |-> [i \in 1..(n_prev + LightN[light]) |->
                     IF i <= n_prev THEN Irr0_prev[i] ELSE 0]]

\* mutation of AssignSlice: the map is rewritten with the new light alone
AssignSlice_OnlyNew(idx, light, n_prev) ==
    [k \in {light} |-> <<n_prev, n_prev + LightN[light]>>]

\* mutation of AssignSlice: the new light takes the head of the container and
\* the slices of the others move up
AssignSlice_Prepend(idx, light, n_prev) ==
    [k \in DOMAIN idx \cup {light} |->
        IF k = light THEN <<0, LightN[light]>>
        ELSE <<idx[k][1] + LightN[light], idx[k][2] + LightN[light]>>]

\* self.subgroup_idx_for_light[light] = slice(n_prev, n_prev + light.n)
AssignSlice(idx, light, n_prev) ==
    [k \in DOMAIN idx \cup {light} |->
        IF k = light THEN <<n_prev, n_prev + LightN[light]>> ELSE idx[k]]

\* mutation of ClearForReplay: self.light_prop_syns.clear() is missing
ClearForReplay_KeepSyns(st) == [st EXCEPT !.connections = {}]

\* mutation of ClearForReplay: self.connections.clear() is missing
ClearForReplay_KeepConnections(st) == [st EXCEPT !.light_prop_syns = <<>>]

\* self.connections.clear(); self.light_prop_syns.clear()
ClearForReplay(st) == [st EXCEPT !.connections = {}, !.light_prop_syns = <<>>]

\* order: the iteration order of the set prev_cxns
init_register_light(st, light, order) ==
    LET n_prev == Len(st.light_source_ng.Irr0)
        s1 == IF ~IsNone(st.light_source_ng)
              THEN _remove_brian_object(st, NgObj(st.light_source_ng.id))
              ELSE st
    IN
    IF ~Ok(s1) THEN s1
    ELSE
    LET s2 == [s1 EXCEPT !.light_source_ng = NewLightSourceNg(st, light)]
        s3 == _add_brian_object(s2, NgObj(s2.light_source_ng.id))
        s4 == [s3 EXCEPT !.subgroup_idx_for_light = AssignSlice(@, light, n_prev)]
        s5 == RemoveSyns(s4, DOMAIN s4.light_prop_syns)
    IN
    IF ~Ok(s5) THEN s5
    ELSE
    LET prev_cxns == s5.connections
        s6 == ClearForReplay(s5)
        s7 == ConnectEach(s6, order)
    IN
    IF ~Ok(s7) THEN s7
    ELSE IF prev_cxns # s7.connections THEN Raise(s7, "AssertionError")
    ELSE s7

\* mutation of register_ldd: only the first previously injected light is connected
register_ldd_FirstOnly(st, ldd, ng, order) ==
    LET s1 == [st EXCEPT !.ldds_for_ng = AddMember(@, ng, ldd)]
    IN IF order = <<>> THEN s1
       ELSE connect_light_to_ldd_for_ng(s1, order[1], ldd, ng)

\* order: the iteration order of the set prev_injct_lights
register_ldd(st, ldd, ng, order) ==
    LET s1 == [st EXCEPT !.ldds_for_ng = AddMember(@, ng, ldd)]
    IN ConnectEach(s1, [i \in 1..Len(order) |-> <<order[i], ldd, ng>>])

\* mutation of register_light: the container is rebuilt for the light first
register_light_WithRebuild(st, light, ng, order) ==
    LET s0 == init_register_light(st, light, CHOOSE o \in Perms(st.connections) : TRUE)
        s1 == [s0 EXCEPT !.lights_for_ng = AddMember(@, ng, light)]
    IN ConnectEach(s1, [i \in 1..Len(order) |-> <<light, order[i], ng>>])

\* order: the iteration order of the set prev_injct_ldds
register_light(st, light, ng, order) ==
    LET s1 == [st EXCEPT !.lights_for_ng = AddMember(@, ng, light)]
    IN ConnectEach(s1, [i \in 1..Len(order) |-> <<light, order[i], ng>>])

\* mutation of register: a device of neither kind is recorded as light-dependent
register_RecordsAny(st, device, ng, order) ==
    IF device \in Lights THEN register_light(st, device, ng, order)
    ELSE IF device \in Ldds THEN register_ldd(st, device, ng, order)
    ELSE [st EXCEPT !.ldds_for_ng = AddMember(@, ng, device)]

\* order: the iteration order of the set the specialised registration loops over
register(st, device, ng, order) ==
    IF device \in Lights THEN register_light(st, device, ng, order)
    ELSE IF device \in Ldds THEN register_ldd(st, device, ng, order)
    ELSE st

\* i = self.subgroup_idx_for_light[light]; return self.light_source_ng[i]
\* (the slice of the current container the returned Subgroup addresses)
SubgroupOf(st, light) ==
    IF light \in DOMAIN st.subgroup_idx_for_light
    THEN st.subgroup_idx_for_light[light]
    ELSE <<>>

\* mutation of source_for_light: an unknown light is not reported
source_for_light_NoRaise(st, light) == st

source_for_light(st, light) ==
    IF light \notin DOMAIN st.subgroup_idx_for_light THEN Raise(st, "KeyError(light)")
    ELSE st

update_fov(st, new_fov) ==
    LET s1 == [st EXCEPT !.raster_enable = 1] IN
    IF s1.raster_fov # new_fov
    THEN [s1 EXCEPT !.raster_fov = new_fov, !.warned = TRUE]
    ELSE s1

\* source_for_light(light).Irr0 = v, written by the light's owner
WriteIrr0(st, light, v) ==
    [st EXCEPT !.light_source_ng.Irr0 =
        WriteSlice(@, st.subgroup_idx_for_light[light], v)]

\* ------------------------------------------------------ transmittance model
\* Lengths are in micrometres.  A fraction f is the integer f * SCALE, rounded
\* down; an exponent x is the integer x * ExpUnit, rounded down.
SCALE == 10000
ExpUnit == 256
\* np.exp(x) is computed as (1 + x / ExpPower) ** ExpPower, by squaring
\* ExpSquarings times
ExpSquarings == 8
ExpPower == 256
\* 1 / np.sqrt(2 * np.pi), as a fraction
InvSqrt2Pi == 3989

\* R0 = 0.1 mm, NAfib = 0.37, K = 0.125 / mm, S = 7.37 / mm, ntis = 1.36
default_blue ==
    [R0 |-> 100, NAfib |-> 3700, wavelength |-> 473, K |-> 125, S |-> 7370,
     ntis |-> 13600]

\* np.sqrt, rounded down: bisection between lo and hi, lo * lo <= v < hi * hi
RECURSIVE IsqrtIter(_, _, _)
IsqrtIter(v, lo, hi) ==
    IF hi - lo <= 1
    THEN lo
    ELSE LET mid == (lo + hi) \div 2 IN
         IF mid * mid <= v THEN IsqrtIter(v, mid, hi) ELSE IsqrtIter(v, lo, mid)

SqrtLimit == 46340
Isqrt(v) == IsqrtIter(v, 0, SqrtLimit)

\* the fraction y squared k times
RECURSIVE SquareTimes(_, _)
SquareTimes(y, k) ==
    IF k = 0 THEN y ELSE SquareTimes((y * y) \div SCALE, k - 1)

\* np.exp(-n / ExpUnit) and np.exp(n / ExpUnit) for n >= 0
exp_neg(n) ==
    IF n >= ExpUnit * ExpPower
    THEN 0
    ELSE SquareTimes(SCALE - (n * SCALE) \div (ExpUnit * ExpPower), ExpSquarings)
exp_pos(n) ==
    SquareTimes(SCALE + (n * SCALE) \div (ExpUnit * ExpPower), ExpSquarings)
sinh(n) == (exp_pos(n) - exp_neg(n)) \div 2
cosh(n) == (exp_pos(n) + exp_neg(n)) \div 2

\* np.tan(np.arcsin(NAfib / ntis)): tan(arcsin(s)) = s / sqrt(1 - s ** 2)
TanThetaDiv ==
    LET s == (default_blue.NAfib * SCALE) \div default_blue.ntis IN
    (s * SCALE) \div Isqrt(SCALE * SCALE - s * s)

\* the apparent radius at axial offset z
ApparentRadius(z, spread) ==
    IF spread
    THEN default_blue.R0 + (z * TanThetaDiv) \div SCALE
    ELSE default_blue.R0

\* C = (R0 / Rz) ** 2 under spread, else 1
Spread(Rz, spread) ==
    IF spread
    THEN LET q == (default_blue.R0 * SCALE) \div Rz IN (q * q) \div SCALE
    ELSE SCALE

\* G = 1 / sqrt(2 pi) * exp(-2 * (r / Rz) ** 2) under gaussian, else 1
Gaussian_Complement(r, Rz, gaussian) ==
    IF gaussian
    THEN (InvSqrt2Pi
            * (SCALE - exp_neg((2 * ExpUnit * r * r) \div (Rz * Rz)))) \div SCALE
    ELSE SCALE

Gaussian(r, Rz, gaussian) ==
    IF gaussian
    THEN (InvSqrt2Pi * exp_neg((2 * ExpUnit * r * r) \div (Rz * Rz))) \div SCALE
    ELSE SCALE

\* b / (a * sinh(b * S * dist) + b * cosh(b * S * dist))
kubelka_munk(r, z) ==
    LET S == default_blue.S
        a == SCALE + (default_blue.K * SCALE) \div S
        b == Isqrt(a * a - SCALE * SCALE)
        dist == Isqrt(r * r + z * z)
        bS == (b * S) \div SCALE
        n == (bS * dist * ExpUnit) \div 1000000
    IN  (b * SCALE) \div ((a * sinh(n) + b * cosh(n)) \div SCALE)

\* T = G * C * M; the result is the integer T * SCALE * SCALE, rounded down
_Foutz12_transmittance(r, z, scatter, spread, gaussian) ==
    LET Rz == ApparentRadius(z, spread)
        C == Spread(Rz, spread)
        G == Gaussian(r, Rz, gaussian)
        M == IF scatter THEN kubelka_munk(r, z) ELSE SCALE
    IN  ((G * C) \div SCALE) * M

\* for a device at the origin that points along z: the axial offset is z and
\* the radial offset the distance from the z axis
_get_rz_for_xyz(x, y, z) == [r |-> Isqrt(x * x + y * y), z |-> z]

\* offsets the model evaluates the transmittance at
RadialOffsets == {100 * k : k \in 0..5}
AxialOffsets == {100 * k : k \in -2..10}

NoFoutzCall ==
    [called |-> FALSE, r |-> 0, z |-> 0, scatter |-> TRUE, spread |-> TRUE,
     gaussian |-> TRUE, T |-> 0]

\* -------------------------------------------------- optogenetic intervention
\* populations the device can be connected to, with their neurons' coordinates
OptoPops == {"P1", "P2"}
PopXYZ ==
    [P1 |-> <<[x |-> 0, y |-> 0, z |-> 500]>>,
     P2 |-> <<[x |-> 300, y |-> 400, z |-> 0], [x |-> 0, y |-> 100, z |-> 1000]>>]

\* max_Irr0_mW_per_mm2 the device can be built with, besides None
NoneMax == <<>>
MaxIrr0Values == {-1, 0, 2, 3}
\* intensities update is called with
Irr0Inputs == -1..4
\* mwatt / mm2 in watt / meter ** 2
mwatt_per_mm2 == 1000

\* OptogeneticIntervention(..., max_Irr0_mW_per_mm2 = max)
OptoInit(max) ==
    /\ opto_syns = <<>>
    /\ max_Irr0_mW_per_mm2 = max
    /\ value = 0
    /\ opto_brian_objects = {}
    /\ opto_last = [op |-> "init", arg |-> 0, err |-> "none"]

\* the device as one value
OptoCur ==
    [opto_syns |-> opto_syns,
     max_Irr0_mW_per_mm2 |-> max_Irr0_mW_per_mm2,
     value |-> value,
     brian_objects |-> opto_brian_objects,
     err |-> "none"]

_init_opto_syn_vars(opto_syn) ==
    [opto_syn EXCEPT !.Irr0 = 0, !.C1 = 1, !.O1 = 0, !.O2 = 0]

\* with the default keyword parameters (p_expression = 1, rho_rel = 1)
connect_to_neuron_group(dv, ng) ==
    LET rz == [k \in 1..Len(PopXYZ[ng]) |->
                 _get_rz_for_xyz(PopXYZ[ng][k].x, PopXYZ[ng][k].y, PopXYZ[ng][k].z)]
        T == [k \in 1..Len(rz) |->
                 _Foutz12_transmittance(rz[k].r, rz[k].z, TRUE, TRUE, TRUE)]
        opto_syn == _init_opto_syn_vars(
                        [Irr0 |-> 0, C1 |-> 0, O1 |-> 0, O2 |-> 0,
                         rho_rel |-> 1, T |-> T])
    IN  [dv EXCEPT !.opto_syns = (ng :> opto_syn) @@ @,
                   !.brian_objects = @ \cup {ng}]

NegativeIntensity_Never(Irr0_mW_per_mm2) == FALSE

NegativeIntensity(Irr0_mW_per_mm2) == Irr0_mW_per_mm2 < 0

Clamp_Identity(max, Irr0_mW_per_mm2) == Irr0_mW_per_mm2

\* the intensity update stores, given max_Irr0_mW_per_mm2
Clamp(max, Irr0_mW_per_mm2) ==
    IF max # NoneMax /\ Irr0_mW_per_mm2 > max[1] THEN max[1] ELSE Irr0_mW_per_mm2

update(dv, Irr0_mW_per_mm2) ==
    IF NegativeIntensity(Irr0_mW_per_mm2)
    THEN [dv EXCEPT !.err = "ValueError"]
    ELSE LET Irr0 == Clamp(dv.max_Irr0_mW_per_mm2, Irr0_mW_per_mm2) IN
         [dv EXCEPT !.value = Irr0,
                    !.opto_syns = [n \in DOMAIN @ |->
                                     [@[n] EXCEPT !.Irr0 = Irr0 * mwatt_per_mm2]]]

reset(dv) ==
    [dv EXCEPT !.opto_syns = [n \in DOMAIN @ |-> _init_opto_syn_vars(@[n])]]

\* ---------------------------------------------------------- specification
NoSlice == <<>>

Call(op, dev, ng, fov, st, ret) ==
    [op |-> op, dev |-> dev, light |-> "-", ng |-> ng, fov |-> fov,
     err |-> st.err, warned |-> st.warned, ret |-> ret]

Install(st) ==
    /\ subgroup_idx_for_light' = st.subgroup_idx_for_light
    /\ light_source_ng' = st.light_source_ng
    /\ ldds_for_ng' = st.ldds_for_ng
    /\ lights_for_ng' = st.lights_for_ng
    /\ light_prop_syns' = st.light_prop_syns
    /\ connections' = st.connections
    /\ raster_fov' = st.raster_fov
    /\ raster_enable' = st.raster_enable
    /\ brian_objects' = st.brian_objects
    /\ network' = st.network
    /\ UNCHANGED <<optoVars, foutz>>

\* DeviceInteractionRegistry(sim)
RegistryInit ==
    /\ subgroup_idx_for_light = <<>>
    /\ light_source_ng = NoNG
    /\ ldds_for_ng = <<>>
    /\ lights_for_ng = <<>>
    /\ light_prop_syns = <<>>
    /\ connections = {}
    /\ raster_fov = DefaultRasterFov
    /\ raster_enable = 0
    /\ brian_objects = {}
    /\ network = {}
    /\ last = [op |-> "init", dev |-> "-", light |-> "-", ng |-> "-", fov |-> 0,
               err |-> "none", warned |-> FALSE, ret |-> NoSlice]
    /\ clean = TRUE

\* a registry, a device without a maximum irradiance, no evaluation yet
Init ==
    /\ RegistryInit
    /\ OptoInit(NoneMax)
    /\ foutz = NoFoutzCall

\* the set the registration of device into ng iterates over
LoopSet(device, ng) ==
    IF device \in Lights THEN GetOrEmpty(ldds_for_ng, ng)
    ELSE IF device \in Ldds THEN GetOrEmpty(lights_for_ng, ng)
    ELSE {}

Register ==
    \E device \in Devices, ng \in Pops :
    \E order \in Perms(LoopSet(device, ng)) :
        LET st == register(Cur, device, ng, order) IN
        /\ Install(st)
        /\ last' = Call("register", device, ng, 0, st, NoSlice)
        /\ clean' = (clean /\ Ok(st))

InitRegisterLight ==
    \E light \in Lights :
        /\ Len(light_source_ng.Irr0) + LightN[light] <= MaxN
        /\ \E order \in Perms(connections) :
            LET st == init_register_light(Cur, light, order) IN
            /\ Install(st)
            /\ last' = Call("init_register_light", light, "-", 0, st, NoSlice)
            /\ clean' = (clean /\ Ok(st))

Connect ==
    \E light \in Lights, ldd \in Ldds, ng \in Pops :
        LET st == connect_light_to_ldd_for_ng(Cur, light, ldd, ng) IN
        /\ Install(st)
        /\ last' = [Call("connect", ldd, ng, 0, st, NoSlice) EXCEPT !.light = light]
        /\ clean' = FALSE

SourceForLight ==
    \E light \in Lights :
        LET st == source_for_light(Cur, light) IN
        /\ Install(st)
        /\ last' = Call("source_for_light", light, "-", 0, st, SubgroupOf(st, light))
        /\ UNCHANGED clean

UpdateFov ==
    \E new_fov \in FovValues :
        LET st == update_fov(Cur, new_fov) IN
        /\ Install(st)
        /\ last' = Call("update_fov", "-", "-", new_fov, st, NoSlice)
        /\ UNCHANGED clean

SetIrr0 ==
    \E light \in DOMAIN subgroup_idx_for_light, v \in IrrValues :
        LET st == WriteIrr0(Cur, light, v) IN
        /\ Install(st)
        /\ last' = Call("set_Irr0", light, "-", 0, st, NoSlice)
        /\ UNCHANGED clean

\* registration, connection and rebuild; the irradiances stay at zero and the
\* raster settings at their defaults
Next ==
    \/ Register
    \/ InitRegisterLight
    \/ Connect
    \/ SourceForLight

Spec == Init /\ [][Next]_vars

\* registration and rebuild together with writes of the lights' irradiance
NextIrr0 ==
    \/ Register
    \/ InitRegisterLight
    \/ SourceForLight
    \/ SetIrr0

SpecIrr0 == Init /\ [][NextIrr0]_vars

\* registration and connection together with field-of-view updates
NextRaster ==
    \/ Register
    \/ InitRegisterLight
    \/ Connect
    \/ UpdateFov

SpecRaster == Init /\ [][NextRaster]_vars

\* ------------------------------------------------------------ properties
\* what the registry holds, without the record of the last call
registry == <<subgroup_idx_for_light, light_source_ng, ldds_for_ng, lights_for_ng,
              light_prop_syns, connections, raster_fov, raster_enable,
              brian_objects, network>>

\* Irr0 of the container ng at the indices of slice sl, in order
ReadSlice(ng, sl) == [i \in 1..(sl[2] - sl[1]) |-> ng.Irr0[sl[1] + i]]

\* indices of the current container that light's slice addresses
IdxOf(light) == SliceIdx(subgroup_idx_for_light[light], Len(light_source_ng.Irr0))

\* C1: a rebuild (init_register_light) never raises, its closing assertion
\* included, and the Connection Set after it equals the Connection Set
\* before it.
C1_ReplayIdempotence ==
    [][last'.op = "init_register_light" =>
          (last'.err = "none" /\ connections' = connections)]_vars

\* a rebuild has replayed at least two connections
C1_Witness ==
    /\ last.op = "init_register_light"
    /\ Cardinality(connections) >= 2

\* C2: the slices of the registered lights are pairwise disjoint and their
\* union is the whole index range of the current container.
C2_SlicePartition ==
    /\ \A a, b \in DOMAIN subgroup_idx_for_light :
           a # b => IdxOf(a) \cap IdxOf(b) = {}
    /\ UNION {IdxOf(a) : a \in DOMAIN subgroup_idx_for_light}
           = 1..Len(light_source_ng.Irr0)

\* C3: registering a new light of n elements yields a container of the
\* previous size plus n in which every light registered before reads the
\* irradiance it held and the new light reads zero.
C3_ResizePreservesIrr0 ==
    [][(last'.op = "init_register_light"
          /\ last'.dev \notin DOMAIN subgroup_idx_for_light) =>
          /\ Len(light_source_ng'.Irr0)
                 = Len(light_source_ng.Irr0) + LightN[last'.dev]
          /\ \A l \in DOMAIN subgroup_idx_for_light :
                 ReadSlice(light_source_ng', subgroup_idx_for_light'[l])
                     = ReadSlice(light_source_ng, subgroup_idx_for_light[l])
          /\ ReadSlice(light_source_ng', subgroup_idx_for_light'[last'.dev])
                 = Const(LightN[last'.dev], 0)]_vars

\* a second light was registered while the first held a non-zero irradiance:
\* the last registered light owns the tail, no light was registered twice
\* (the slices cover the container) and another light still reads 5
C3_Witness ==
    /\ last.op = "init_register_light"
    /\ last.err = "none"
    /\ subgroup_idx_for_light[last.dev][2] = Len(light_source_ng.Irr0)
    /\ UNION {IdxOf(a) : a \in DOMAIN subgroup_idx_for_light}
           = 1..Len(light_source_ng.Irr0)
    /\ \E l \in DOMAIN subgroup_idx_for_light \ {last.dev} :
           ReadSlice(light_source_ng, subgroup_idx_for_light[l])
               = Const(LightN[l], 5)

\* C4: connect for a triple that is in the Connection Set raises ValueError
\* (and changes nothing).
C4_DuplicateRejected ==
    [][(last'.op = "connect"
          /\ <<last'.light, last'.dev, last'.ng>> \in connections) =>
          (last'.err = "ValueError" /\ UNCHANGED registry)]_vars

\* a connect of an already connected triple has been rejected
C4_Witness ==
    /\ last.op = "connect"
    /\ <<last.light, last.dev, last.ng>> \in connections
    /\ last.err = "ValueError"

\* C5: connect with a device of zero sensitivity at the light's wavelength
\* raises nothing and leaves the Connection Set, the Coupling Structure
\* Table and the host's objects unchanged.
C5_ZeroSensitivityNoOp ==
    [][(last'.op = "connect"
          /\ Epsilon(last'.dev, Wavelength[last'.light]) = 0) =>
          (last'.err = "none" /\ UNCHANGED registry)]_vars

\* a zero-sensitivity connect was made where a coupling structure could have
\* been created (a container exists, the light has a slice, the pair has no
\* structure yet)
C5_Witness ==
    /\ last.op = "connect"
    /\ last.err = "none"
    /\ Epsilon(last.dev, Wavelength[last.light]) = 0
    /\ last.light \in DOMAIN subgroup_idx_for_light
    /\ <<last.dev, last.ng>> \notin DOMAIN light_prop_syns
    /\ <<last.light, last.dev, last.ng>> \notin connections

\* the triples that membership and sensitivity call for
ExpectedConnections ==
    {<<l, d, p>> \in Lights \X Ldds \X Pops :
        /\ l \in GetOrEmpty(lights_for_ng, p)
        /\ d \in GetOrEmpty(ldds_for_ng, p)
        /\ Epsilon(d, Wavelength[l]) # 0}

\* C6: as long as only registrations were made and none raised, the
\* Connection Set is exactly the set of member triples of non-zero
\* sensitivity.
C6_ConnectionCompleteness == clean => connections = ExpectedConnections

\* every possible triple has been connected by registrations alone
C6_Witness ==
    /\ clean
    /\ Cardinality(connections) >= 3
    /\ \E p \in Pops : "D1" \in GetOrEmpty(ldds_for_ng, p)
                       /\ "L2" \in GetOrEmpty(lights_for_ng, p)

\* C7 (as claimed): when register returns for a light, the container has
\* grown by the light's element count and the light owns the slice at its
\* tail.
C7_RegisterRebuilds ==
    [][(last'.op = "register" /\ last'.dev \in Lights /\ last'.err = "none") =>
          /\ Len(light_source_ng'.Irr0)
                 = Len(light_source_ng.Irr0) + LightN[last'.dev]
          /\ last'.dev \in DOMAIN subgroup_idx_for_light'
          /\ subgroup_idx_for_light'[last'.dev]
                 = <<Len(light_source_ng.Irr0), Len(light_source_ng'.Irr0)>>]_vars

\* the light-sensitive devices of ng that are sensitive to light
SensitiveLdds(light, ng) ==
    {d \in GetOrEmpty(ldds_for_ng, ng) : Epsilon(d, Wavelength[light]) # 0}

\* C7 (amended): register with a light leaves the container and the slice
\* map as they are and records the membership; it cannot fail for lack of a
\* slice when the light has one, and it fails when the light has none and a
\* sensitive device is already in the population.
C7_RegisterLightKeepsContainer ==
    [][(last'.op = "register" /\ last'.dev \in Lights) =>
          /\ light_source_ng' = light_source_ng
          /\ subgroup_idx_for_light' = subgroup_idx_for_light
          /\ last'.dev \in GetOrEmpty(lights_for_ng', last'.ng)
          /\ (last'.dev \in DOMAIN subgroup_idx_for_light =>
                 last'.err \notin {"KeyError(light)", "AttributeError"})
          /\ (last'.dev \notin DOMAIN subgroup_idx_for_light
                 /\ SensitiveLdds(last'.dev, last'.ng) # {} =>
                 last'.err # "none")]_vars

\* a light that owns a slice was registered and connected to a device that
\* was already in the population
C7_Witness ==
    /\ last.op = "register"
    /\ last.dev \in Lights
    /\ last.err = "none"
    /\ last.dev \in DOMAIN subgroup_idx_for_light
    /\ \E d \in Ldds : <<last.dev, d, last.ng>> \in connections

\* the lights of ng that ldd is sensitive to
SensedLights(ldd, ng) ==
    {l \in GetOrEmpty(lights_for_ng, ng) : Epsilon(ldd, Wavelength[l]) # 0}

\* ldd is registered in ng and connected to every light of ng it senses, of
\* which there is at least one
FullyConnected(ldd, ng) ==
    /\ ldd \in Ldds
    /\ ldd \in GetOrEmpty(ldds_for_ng, ng)
    /\ SensedLights(ldd, ng) # {}
    /\ \A l \in SensedLights(ldd, ng) : <<l, ldd, ng>> \in connections

\* C8 (as claimed): registering a light-sensitive device again, its lights
\* being connected already, raises nothing and changes nothing.
C8_RegisterLddIdempotent ==
    [][(last'.op = "register" /\ FullyConnected(last'.dev, last'.ng)) =>
          (last'.err = "none" /\ UNCHANGED registry)]_vars

\* C8 (amended): registering a light-sensitive device again, its lights
\* being connected already, raises ValueError and changes nothing.
C8_RegisterLddAgainRaises ==
    [][(last'.op = "register" /\ FullyConnected(last'.dev, last'.ng)) =>
          (last'.err = "ValueError" /\ UNCHANGED registry)]_vars

\* a second registration of a connected light-sensitive device was rejected
C8_Witness ==
    /\ last.op = "register"
    /\ FullyConnected(last.dev, last.ng)
    /\ last.err = "ValueError"

\* the lights connected through the coupling structure of <<ldd, ng>>
ConnectedLights(k) == {l \in Lights : <<l, k[1], k[2]>> \in connections}

\* C9: on every coupling structure that carries a connection, each edge's
\* raster-enable flag is the registry's flag and its dwell time is the one
\* the registry's field-of-view gives for a connected light.
C9_RasterShared ==
    \A k \in DOMAIN light_prop_syns :
        ConnectedLights(k) # {} =>
            \A i \in 1..Len(light_prop_syns[k].raster_enable) :
                /\ light_prop_syns[k].raster_enable[i] = raster_enable
                /\ \E l \in ConnectedLights(k) :
                       light_prop_syns[k].raster_dwell_time[i]
                           = DwellTimeOf(raster_fov, ScanFreq[l])

\* C10: update_fov sets the enable flag and the field-of-view, and warns
\* exactly when raster scanning was already enabled with another
\* field-of-view.
C10_UpdateFovWarning ==
    [][last'.op = "update_fov" =>
          /\ raster_enable' = 1
          /\ raster_fov' = last'.fov
          /\ (last'.warned <=> (raster_enable = 1 /\ raster_fov # last'.fov))]_vars

\* C11: source_for_light changes nothing; for a light with a slice it
\* returns that slice of the current container, for a light without one it
\* raises the lookup error.
C11_SourceForLight ==
    [][last'.op = "source_for_light" =>
          /\ UNCHANGED registry
          /\ (last'.dev \in DOMAIN subgroup_idx_for_light =>
                 /\ last'.err = "none"
                 /\ last'.ret = subgroup_idx_for_light[last'.dev]
                 /\ IdxOf(last'.dev) # {})
          /\ (last'.dev \notin DOMAIN subgroup_idx_for_light =>
                 /\ last'.err = "KeyError(light)"
                 /\ last'.ret = NoSlice)]_vars

\* the source of a light without a slice was asked for while a container
\* with another light's slice exists
C11_Witness ==
    /\ last.op = "source_for_light"
    /\ last.err = "KeyError(light)"
    /\ last.dev \notin DOMAIN subgroup_idx_for_light
    /\ subgroup_idx_for_light # <<>>

\* the coupling structures of the table and the host all belong to container id
SynsOfGeneration(syns, objs, id) ==
    /\ \A k \in DOMAIN syns : syns[k].gen = id
    /\ \A o \in objs : o.kind = "syn" => o.gen = id

\* C12: after init_register_light, returned or raised, the rebuild is either
\* complete (new container in the host, old one gone, every structure of the
\* new container, the Connection Set replayed and a structure for exactly
\* the connected pairs) or nothing has changed.
C12_RebuildAtomic ==
    [][last'.op = "init_register_light" =>
          \/ UNCHANGED registry
          \/ /\ last'.err = "none"
             /\ light_source_ng'.id # light_source_ng.id
             /\ NgObj(light_source_ng'.id) \in network'
             /\ NgObj(light_source_ng.id) \notin network'
             /\ SynsOfGeneration(light_prop_syns', network', light_source_ng'.id)
             /\ connections' = connections
             /\ DOMAIN light_prop_syns' = {<<c[2], c[3]>> : c \in connections}
             /\ last'.dev \in DOMAIN subgroup_idx_for_light'
             /\ \A l \in DOMAIN subgroup_idx_for_light :
                    l \in DOMAIN subgroup_idx_for_light']_vars

\* a rebuild replaced a container and recreated the structures of two pairs
C12_Witness ==
    /\ last.op = "init_register_light"
    /\ light_source_ng.id >= 2
    /\ Cardinality(DOMAIN light_prop_syns) >= 2

\* C13: the host never holds two coupling structures of one (device,
\* population) pair, and the structure the table holds for a pair is the one
\* in the host.
C13_OneSynPerPair ==
    /\ \A a, b \in network \cup brian_objects :
           (a.kind = "syn" /\ b.kind = "syn" /\ a.ldd = b.ldd /\ a.ng = b.ng)
               => a = b
    /\ \A k \in DOMAIN light_prop_syns :
           SynObj(k[1], k[2], light_prop_syns[k].gen) \in network

\* both devices have a structure that was recreated by a rebuild
C13_Witness ==
    /\ \A d \in Ldds : \E p \in Pops :
           /\ <<d, p>> \in DOMAIN light_prop_syns
           /\ light_prop_syns[<<d, p>>].gen >= 2

\* C14: register with a device that is neither a light nor light-dependent
\* raises nothing and changes nothing.
C14_RegisterOtherNoOp ==
    [][(last'.op = "register" /\ last'.dev \in Others) =>
          (last'.err = "none" /\ UNCHANGED registry)]_vars

\* such a device was registered into a population that has lights, devices
\* and connections
C14_Witness ==
    /\ last.op = "register"
    /\ last.dev \in Others
    /\ GetOrEmpty(lights_for_ng, last.ng) # {}
    /\ GetOrEmpty(ldds_for_ng, last.ng) # {}
    /\ connections # {}

\* the per-edge fields of a coupling structure
EdgeFields(syn, i) ==
    <<syn.epsilon[i], syn.T[i], syn.Ephoton[i], syn.scan_period[i],
      syn.raster_dwell_time[i], syn.scale[i], syn.raster_enable[i]>>

\* C17: a connect that succeeds on an existing coupling structure leaves the
\* per-edge fields on the edges of the other lights' slices as they were.
C17_ConnectWritesOwnSlice ==
    [][(last'.op = "connect" /\ last'.err = "none"
          /\ <<last'.dev, last'.ng>> \in DOMAIN light_prop_syns
          /\ <<last'.light, last'.dev, last'.ng>> \in connections') =>
          \A l \in DOMAIN subgroup_idx_for_light \ {last'.light} :
              \A i \in IdxOf(l) \ IdxOf(last'.light) :
                  EdgeFields(light_prop_syns'[<<last'.dev, last'.ng>>], i)
                      = EdgeFields(light_prop_syns[<<last'.dev, last'.ng>>], i)]_vars

\* C18: every coupling structure in the table, and every one in the host,
\* was created against the current container.
C18_NoStaleSyn ==
    /\ SynsOfGeneration(light_prop_syns, network \cup brian_objects,
                        light_source_ng.id)
    /\ \A o \in network \cup brian_objects :
           o.kind = "ng" => o.gen = light_source_ng.id

\* a rebuild has just replaced a container that coupling structures referred to
C18_Witness ==
    /\ last.op = "init_register_light"
    /\ light_source_ng.id >= 2
    /\ light_prop_syns # <<>>
    /\ connections # {}

\* the objects the registry should have in the host
ExpectedObjects ==
    (IF IsNone(light_source_ng) THEN {} ELSE {NgObj(light_source_ng.id)})
        \cup {SynObj(k[1], k[2], light_prop_syns[k].gen) : k \in DOMAIN light_prop_syns}

\* C20: brian_objects, and the host's network, hold exactly the current
\* container and the coupling structures of the table, and no remove ever
\* targets an object that is not attached.
C20_HostBookkeeping ==
    /\ brian_objects = ExpectedObjects
    /\ network = ExpectedObjects
    /\ last.err # "KeyError(obj)"

\* a rebuild removed a container and two structures and attached their
\* replacements
C20_Witness ==
    /\ last.op = "init_register_light"
    /\ light_source_ng.id >= 2
    /\ Cardinality(brian_objects) >= 3

\* C21: a light that has a slice keeps it through the registration of every
\* other light: the rebuild gives the new light the tail of the container, so
\* the slice of each other light, and the index range of the container that
\* source_for_light addresses through it, are the same before and after.
C21_SliceStable ==
    [][last'.op = "init_register_light" =>
          \A l \in DOMAIN subgroup_idx_for_light \ {last'.dev} :
              /\ l \in DOMAIN subgroup_idx_for_light'
              /\ subgroup_idx_for_light'[l] = subgroup_idx_for_light[l]
              /\ SubgroupOf(source_for_light([Cur EXCEPT
                      !.subgroup_idx_for_light = subgroup_idx_for_light',
                      !.light_source_ng = light_source_ng'], l), l)
                    = SubgroupOf(source_for_light(Cur, l), l)
              /\ SliceIdx(subgroup_idx_for_light'[l], Len(light_source_ng'.Irr0))
                    = IdxOf(l)
              /\ IdxOf(l) # {}]_vars

\* a rebuild for a second light has returned while the first light holds the
\* head of the container
C21_Witness ==
    /\ last.op = "init_register_light"
    /\ last.err = "none"
    /\ \E l \in DOMAIN subgroup_idx_for_light \ {last.dev} :
           /\ subgroup_idx_for_light[l][1] = 0
           /\ subgroup_idx_for_light[last.dev][1] = subgroup_idx_for_light[l][2]

\* C22: a connect that fails, with the duplicate-connection error or because
\* the light has no slice, leaves the Connection Set, the Coupling Structure
\* Table with its per-edge fields and the host-attached structures as they
\* were, and every coupling structure of the table then has a triple in the
\* Connection Set.
C22_FailedConnectUnchanged ==
    [][(last'.op = "connect" /\ last'.err \in {"ValueError", "KeyError(light)"}) =>
          /\ connections' = connections
          /\ light_prop_syns' = light_prop_syns
          /\ network' = network
          /\ brian_objects' = brian_objects
          /\ \A k \in DOMAIN light_prop_syns' :
                 \E c \in connections' : <<c[2], c[3]>> = k]_vars

\* ------------------------------------------- optogenetic device, specification
\* a registry and a device built with any of the maxima or with none
InitOpto ==
    /\ RegistryInit
    /\ \E max \in {NoneMax} \cup {<<m>> : m \in MaxIrr0Values} : OptoInit(max)
    /\ foutz = NoFoutzCall

InstallOpto(dv) ==
    /\ opto_syns' = dv.opto_syns
    /\ value' = dv.value
    /\ opto_brian_objects' = dv.brian_objects
    /\ UNCHANGED <<max_Irr0_mW_per_mm2, registry, last, clean, foutz>>

\* a second Synapses of the same name is refused by the simulator, so a
\* population is connected once
ConnectToNeuronGroup ==
    \E ng \in OptoPops \ DOMAIN opto_syns :
        LET dv == connect_to_neuron_group(OptoCur, ng) IN
        /\ InstallOpto(dv)
        /\ opto_last' = [op |-> "connect_to_neuron_group", arg |-> 0, err |-> dv.err]

Update ==
    \E Irr0_mW_per_mm2 \in Irr0Inputs :
        LET dv == update(OptoCur, Irr0_mW_per_mm2) IN
        /\ InstallOpto(dv)
        /\ opto_last' = [op |-> "update", arg |-> Irr0_mW_per_mm2, err |-> dv.err]

Reset ==
    LET dv == reset(OptoCur) IN
    /\ InstallOpto(dv)
    /\ opto_last' = [op |-> "reset", arg |-> 0, err |-> dv.err]

NextOpto ==
    \/ ConnectToNeuronGroup
    \/ Update
    \/ Reset

SpecOpto == InitOpto /\ [][NextOpto]_vars

\* ------------------------------------------ transmittance model, specification
Foutz12Transmittance ==
    \E r \in RadialOffsets, z \in AxialOffsets :
    \E scatter \in BOOLEAN, spread \in BOOLEAN, gaussian \in BOOLEAN :
        /\ foutz' = [called |-> TRUE, r |-> r, z |-> z, scatter |-> scatter,
                     spread |-> spread, gaussian |-> gaussian,
                     T |-> _Foutz12_transmittance(r, z, scatter, spread, gaussian)]
        /\ UNCHANGED <<registry, last, clean, optoVars>>

NextTransmittance == Foutz12Transmittance

SpecTransmittance == Init /\ [][NextTransmittance]_vars

\* ------------------------------------------- optogenetic device, properties
\* C15: update with a negative intensity raises ValueError and leaves the
\* irradiance of every opsin synapse of the device, and the rest of the
\* device, as it was: the check precedes every write.
C15_NegativeUpdateRejected ==
    [][(opto_last'.op = "update" /\ opto_last'.arg < 0)
        => /\ opto_last'.err = "ValueError"
           /\ opto_syns' = opto_syns
           /\ value' = value
           /\ opto_brian_objects' = opto_brian_objects]_vars

\* a negative update arrives at a device whose synapses carry an irradiance
C15_Witness ==
    /\ opto_last.op = "update"
    /\ opto_last.arg < 0
    /\ opto_last.err = "ValueError"
    /\ DOMAIN opto_syns = OptoPops
    /\ \A ng \in DOMAIN opto_syns : opto_syns[ng].Irr0 = 4 * mwatt_per_mm2

\* the irradiance of every synapse lies between zero and the maximum, and an
\* update above the maximum has stored the maximum on every synapse
IrradianceBounded ==
    LET max == max_Irr0_mW_per_mm2'[1] * mwatt_per_mm2 IN
    /\ \A ng \in DOMAIN opto_syns' :
          opto_syns'[ng].Irr0 >= 0 /\ opto_syns'[ng].Irr0 <= max
    /\ (opto_last'.op = "update" /\ opto_last'.arg > max_Irr0_mW_per_mm2'[1])
          => \A ng \in DOMAIN opto_syns' : opto_syns'[ng].Irr0 = max

\* C16 as stated: for a device with a maximum irradiance set, after every
\* connect, update and reset the irradiance of every synapse is non-negative
\* and at most the maximum, and an update above the maximum stores the maximum.
C16_IrradianceBound ==
    [][max_Irr0_mW_per_mm2' # NoneMax => IrradianceBounded]_vars

\* C16 amended: the same for a device whose maximum irradiance is set and is
\* not negative.
C16_IrradianceBoundNonNegativeMax ==
    [][(max_Irr0_mW_per_mm2' # NoneMax /\ max_Irr0_mW_per_mm2'[1] >= 0)
        => IrradianceBounded]_vars

\* an update above a positive maximum, with both populations connected
C16_Witness ==
    /\ max_Irr0_mW_per_mm2 = <<2>>
    /\ opto_last.op = "update"
    /\ opto_last.arg = 4
    /\ DOMAIN opto_syns = OptoPops
    /\ \A ng \in DOMAIN opto_syns : opto_syns[ng].Irr0 = 2 * mwatt_per_mm2

\* ------------------------------------------- transmittance model, properties
Abs(z) == IF z < 0 THEN -z ELSE z

\* the transmittance at (r, z) under the flags of the last evaluation
TAt(r, z) == _Foutz12_transmittance(r, z, foutz.scatter, foutz.spread, foutz.gaussian)

\* no larger radial offset at the same axial offset has a larger transmittance
RadialNonIncreasing ==
    \A r2 \in RadialOffsets : r2 >= foutz.r => TAt(r2, foutz.z) <= foutz.T

\* C19 as stated: the transmittance is non-increasing in the magnitude of the
\* radial offset for every fixed axial offset, and non-increasing in the
\* magnitude of the axial offset for every fixed radial offset.
C19_Monotone ==
    foutz.called =>
        /\ RadialNonIncreasing
        /\ \A z2 \in AxialOffsets :
              Abs(z2) >= Abs(foutz.z) => TAt(foutz.r, z2) <= foutz.T

\* C19 amended: the transmittance is non-increasing in the magnitude of the
\* radial offset for every fixed axial offset, and on the axis (radial offset
\* zero) non-increasing in the axial offset in front of the source.
C19_MonotoneRadialAndOnAxis ==
    foutz.called =>
        /\ RadialNonIncreasing
        /\ (foutz.r = 0 /\ foutz.z >= 0)
              => \A z2 \in AxialOffsets :
                    z2 >= foutz.z => TAt(foutz.r, z2) <= foutz.T

\* an evaluation off the axis under all three effects, with a strictly smaller
\* transmittance farther out, and one on the axis with a strictly smaller
\* transmittance farther along
C19_Witness ==
    /\ foutz.called /\ foutz.scatter /\ foutz.spread /\ foutz.gaussian
    /\ foutz.T > 0
    /\ \/ foutz.r = 100 /\ foutz.z = 500 /\ TAt(200, 500) < foutz.T
                        /\ TAt(200, 500) > 0
       \/ foutz.r = 0 /\ foutz.z = 500 /\ TAt(0, 600) < foutz.T

====
